---- MODULE Spec2Model ----
(***************************************************************************)
(* Catalog visibility, cart, stock adjustment and checkout of bika.        *)
(*                                                                         *)
(* The database is read-committed: every query sees the rows committed at  *)
(* the moment it runs, and the writes of a transaction.atomic block become *)
(* visible together when the block commits.  No handler takes a row lock   *)
(* (there is no select_for_update), so a handler that reads a row and      *)
(* saves it later is two steps with other requests free to run between.    *)
(*                                                                         *)
(* Money is counted in hundredths (the two decimal places of the           *)
(* DecimalField columns); Decimal values computed in memory are counted in *)
(* ten-thousandths until they are quantized on save.                       *)
(***************************************************************************)
EXTENDS Integers, FiniteSets, Sequences, TLC

\* ---------------------------------------------------------------- bounds
MaxStock == 1          \* largest initial stock_quantity
MaxQty == 2            \* largest cart line quantity
MaxReq == 2            \* stock-adjust and checkout requests issued in a run
MaxCartId == 2         \* cart rows ever inserted

\* ------------------------------------------------------- program constants
TaxRatePercent == 18
ShippingCost == 500000

\* ------------------------------------------------------------ static data
Users == {"u1", "u2"}
\* every identity a request can carry; "anon" is the AnonymousUser
Identities == Users \cup {"u3", "u4", "u5", "u6", "u7", "anon"}
Products == {"p1", "p2"}
Workers == {"w1", "w2"}
Prices == {1000, 1025}
Deltas == {-1, 1}
\* the delta of a request body, 0 included
BodyDeltas == {-1, 0, 1}
\* the quantity of a cart request, zero and negative included
BodyQuantities == -1..MaxQty
\* request inputs
TrackedProducts == {"p1"}
ApiPaymentMethods == {"bank_transfer", "mpesa", "cash"}
WebPaymentMethods == {"", "bank_transfer"}
NoUnit == 0

\* CustomUser rows: u1 is the vendor who created the products, u2 a customer
\* of the same unit.  Product p1 is tracked and visible to the unit, p2 is
\* untracked and private to u1.
\* u3 has user_type admin only, u4 belongs to no unit, u5 is a customer of
\* another unit, u6 has role admin, u7 is a superuser.
CustomUser ==
    [u \in Identities |->
        CASE u = "u1" ->
               [is_authenticated |-> TRUE, is_staff |-> FALSE, is_superuser |-> FALSE, role |-> "staff",
                user_type |-> "vendor", unit_id |-> 1]
          [] u = "u2" ->
               [is_authenticated |-> TRUE, is_staff |-> FALSE, is_superuser |-> FALSE, role |-> "staff",
                user_type |-> "customer", unit_id |-> 1]
          [] u = "u3" ->
               [is_authenticated |-> TRUE, is_staff |-> FALSE, is_superuser |-> FALSE, role |-> "staff",
                user_type |-> "admin", unit_id |-> 2]
          [] u = "u4" ->
               [is_authenticated |-> TRUE, is_staff |-> FALSE, is_superuser |-> FALSE, role |-> "staff",
                user_type |-> "customer", unit_id |-> NoUnit]
          [] u = "u5" ->
               [is_authenticated |-> TRUE, is_staff |-> FALSE, is_superuser |-> FALSE, role |-> "staff",
                user_type |-> "customer", unit_id |-> 2]
          [] u = "u6" ->
               [is_authenticated |-> TRUE, is_staff |-> FALSE, is_superuser |-> FALSE, role |-> "admin",
                user_type |-> "customer", unit_id |-> 2]
          [] u = "u7" ->
               [is_authenticated |-> TRUE, is_staff |-> TRUE, is_superuser |-> TRUE, role |-> "staff",
                user_type |-> "customer", unit_id |-> 2]
          [] OTHER ->
               [is_authenticated |-> FALSE, is_staff |-> FALSE, is_superuser |-> FALSE, role |-> "",
                user_type |-> "", unit_id |-> NoUnit]]

VARIABLES
    product,      \* Product rows: [Products -> record]
    cart,         \* Cart rows: set of [id, user, product, quantity]
    nextCartId,   \* next primary key of Cart
    orders,       \* Order rows
    orderItems,   \* OrderItem rows
    payments,     \* Payment rows
    req,          \* per server worker: the request it handles (position, inputs,
                  \* locals) or the response of the last one it handled
    stock0,       \* history: stock_quantity of each product in the initial state
    issued,       \* history: stock-adjust and checkout requests started so far
    applied,      \* history: per product, sum of the deltas of the successful adjustments
    restocked     \* history: per product, whether a positive adjustment succeeded

vars == <<product, cart, nextCartId, orders, orderItems, payments, req,
          stock0, issued, applied, restocked>>

hist == <<stock0, issued, applied, restocked>>

tables == <<product, cart, nextCartId, orders, orderItems, payments>>

\* ---------------------------------------------------------------- helpers
RECURSIVE SumFn(_, _)
SumFn(f, S) ==
    IF S = {} THEN 0
    ELSE LET x == CHOOSE y \in S : TRUE IN f[x] + SumFn(f, S \ {x})

Max(a, b) == IF a >= b THEN a ELSE b

\* The database as one value, for the operators that model a transaction.
DB ==
    [product |-> product, cart |-> cart, nextCartId |-> nextCartId,
     orders |-> orders, orderItems |-> orderItems, payments |-> payments]

NullProduct ==
    [created_by |-> "none", vendor |-> "none", visibility |-> "unit", status |-> "draft",
     price |-> 0, stock_quantity |-> 0, track_inventory |-> FALSE]

\* conc is history: whether another stock adjustment was being handled when
\* this one was read.
\* available is the stock figure carried by an InsufficientStock answer.
NotCarried == -1

IdleReq ==
    [kind |-> "none", pc |-> "idle", user |-> "none", product |-> "none", delta |-> 0,
     payment_method |-> "", obj |-> NullProduct, lines |-> {}, result |-> "none",
     conc |-> FALSE, item |-> 0, available |-> NotCarried]

InFlight(w) == req[w].pc \notin {"idle", "done"}

\* A worker takes the next request when it has answered the previous one.
CanStart(w) ==
    /\ ~InFlight(w) /\ issued < MaxReq
    /\ (w = "w2" => InFlight("w1"))

Started == issued' = issued + 1 /\ UNCHANGED <<stock0, applied, restocked>>

Overlaps(w) == \E q \in Workers : q # w /\ InFlight(q) /\ req[q].kind = "adjust"

\* what a worker keeps of a request it has answered
Answered(rq, result) ==
    IF rq.kind \in {"adjust", "viewset_adjust"}
    THEN [IdleReq EXCEPT !.kind = rq.kind, !.pc = "done", !.user = rq.user,
                         !.product = rq.product, !.delta = rq.delta, !.conc = rq.conc,
                         !.result = result]
    ELSE [IdleReq EXCEPT !.kind = rq.kind, !.pc = "done", !.result = result]

\* ------------------------------------------------------------- visibility
IsGlobalAdmin(u) ==
    \/ CustomUser[u].is_superuser
    \/ CustomUser[u].user_type = "admin"
    \/ CustomUser[u].role = "admin"

\* unit_id reached through a nullable relation: NULL when the relation is NULL
UnitOf(u) == IF u \in Identities THEN CustomUser[u].unit_id ELSE NoUnit

\* _product_visibility_queryset_for_user(user) contains row p.  The ORM
\* compiles a comparison with None to IS NULL, so for a user without a unit
\* the unit branch matches the rows whose creator or vendor has no unit.
InVisibilityQueryset(u, p) ==
    /\ p.status = "active"
    /\ \/ IsGlobalAdmin(u)
       \/ p.created_by = u
       \/ (p.visibility = "private" /\ p.created_by = u)
       \/ (p.visibility = "unit"
            /\ (UnitOf(p.created_by) = UnitOf(u) \/ UnitOf(p.vendor) = UnitOf(u)))
       \/ (p.visibility = "vendor" /\ p.vendor = u)

\* Product.is_visible_to(user)
is_visible_to(u, p) ==
    IF ~CustomUser[u].is_authenticated THEN FALSE
    ELSE IF CustomUser[u].is_superuser \/ CustomUser[u].role = "admin" THEN TRUE
    ELSE IF p.created_by = u THEN TRUE
    ELSE IF p.visibility = "private" THEN FALSE
    ELSE IF p.visibility = "vendor" THEN p.vendor = u
    ELSE IF p.visibility = "unit"
         THEN /\ UnitOf(u) # NoUnit
              /\ (UnitOf(u) = UnitOf(p.created_by) \/ UnitOf(u) = UnitOf(p.vendor))
    ELSE FALSE

_can_adjust_stock(u, p) ==
    \/ CustomUser[u].is_superuser
    \/ CustomUser[u].user_type = "admin"
    \/ CustomUser[u].role = "admin"
    \/ p.created_by = u
    \/ p.vendor = u

\* ------------------------------------------------------------------- Init
Init ==
    /\ \E s \in 0..MaxStock :
         product =
           [p \in Products |->
              IF p = "p1"
              THEN [created_by |-> "u1", vendor |-> "u1", visibility |-> "unit",
                    status |-> "active", price |-> 1000, stock_quantity |-> s,
                    track_inventory |-> TRUE]
              ELSE [created_by |-> "u1", vendor |-> "u1", visibility |-> "private",
                    status |-> "active", price |-> 1025, stock_quantity |-> 0,
                    track_inventory |-> FALSE]]
    /\ cart = {}
    /\ nextCartId = 1
    /\ orders = {}
    /\ orderItems = {}
    /\ payments = {}
    /\ req = [w \in Workers |-> IdleReq]
    /\ stock0 = [p \in Products |-> product[p].stock_quantity]
    /\ issued = 0
    /\ applied = [p \in Products |-> 0]
    /\ restocked = [p \in Products |-> FALSE]

\* The catalog specifications start from every row p1 can be: with or without
\* a creator (created_by is nullable), sold by its creator or by another
\* vendor, with each visibility, listed or not.
ProductRows ==
    [created_by : {"u1", "none"}, vendor : {"u1", "u2"},
     visibility : {"unit", "vendor", "private"}, status : {"active", "draft"},
     price : {1000}, stock_quantity : {1}, track_inventory : {TRUE}]

InitCatalog ==
    /\ \E row \in ProductRows :
         product =
           [p \in Products |->
              IF p = "p1" THEN row
              ELSE [created_by |-> "u1", vendor |-> "u1", visibility |-> "private",
                    status |-> "active", price |-> 1025, stock_quantity |-> 0,
                    track_inventory |-> FALSE]]
    /\ cart = {}
    /\ nextCartId = 1
    /\ orders = {}
    /\ orderItems = {}
    /\ payments = {}
    /\ req = [w \in Workers |-> IdleReq]
    /\ stock0 = [p \in Products |-> product[p].stock_quantity]
    /\ issued = 0
    /\ applied = [p \in Products |-> 0]
    /\ restocked = [p \in Products |-> FALSE]

\* ------------------------------------------------------------------- cart
CartLine(u, p) == {c \in cart : c.user = u /\ c.product = p}

\* variant: the quantity of the request replaces the quantity of the line
AddedQuantityReplaced(old, quantity) == quantity

\* cart_item.quantity += quantity
AddedQuantity(old, quantity) == old + quantity

\* Cart.objects.get_or_create(user, product, defaults={quantity}), and the
\* quantity of the line raised when the line was there
CartAdd(u, p, quantity) ==
    IF CartLine(u, p) = {}
    THEN /\ nextCartId <= MaxCartId
         /\ cart' = cart \cup {[id |-> nextCartId, user |-> u, product |-> p,
                                quantity |-> quantity]}
         /\ nextCartId' = nextCartId + 1
    ELSE \E c \in CartLine(u, p) :
           /\ AddedQuantity(c.quantity, quantity) <= MaxQty
           /\ cart' = (cart \ {c}) \cup
                        {[c EXCEPT !.quantity = AddedQuantity(c.quantity, quantity)]}
           /\ UNCHANGED nextCartId

\* AddToCartView.post, when it is answered 200
AddToCart(u, p, quantity) ==
    /\ quantity >= 1
    /\ InVisibilityQueryset(u, product[p])
    /\ CartAdd(u, p, quantity)
    /\ UNCHANGED <<product, orders, orderItems, payments, req, hist>>

\* what a worker keeps of an add-to-cart request it has answered
CartResponse(kind, u, p, quantity, result) ==
    [IdleReq EXCEPT !.kind = kind, !.pc = "done", !.user = u, !.product = p,
                    !.delta = quantity, !.result = result]

\* AddToCartView.post with its response
AddToCartPost(w, u, p, quantity) ==
    /\ ~InFlight(w)
    /\ IF quantity < 1
       THEN /\ req' = [req EXCEPT ![w] =
                         CartResponse("cart_add", u, p, quantity, "ValidationError")]
            /\ UNCHANGED <<cart, nextCartId>>
       ELSE IF ~InVisibilityQueryset(u, product[p])
       THEN /\ req' = [req EXCEPT ![w] = CartResponse("cart_add", u, p, quantity, "NotFound")]
            /\ UNCHANGED <<cart, nextCartId>>
       ELSE /\ req' = [req EXCEPT ![w] = CartResponse("cart_add", u, p, quantity, "ok")]
            /\ CartAdd(u, p, quantity)
    /\ UNCHANGED <<product, orders, orderItems, payments, hist>>

\* CartViewSet.create: the product is looked up among all products, and a
\* tracked product is refused beyond its stock
CartViewSetCreate(w, u, p, quantity) ==
    /\ ~InFlight(w)
    /\ LET row == product[p]
           new_qty == IF CartLine(u, p) = {} THEN quantity
                      ELSE (CHOOSE c \in CartLine(u, p) : TRUE).quantity + quantity
           rejection ==
             IF quantity < 1 THEN "ValidationError"
             ELSE IF row = NullProduct THEN "NotFound"
             ELSE IF row.track_inventory /\ row.stock_quantity < quantity
                  THEN "InsufficientStock"
             ELSE IF row.track_inventory /\ row.stock_quantity < new_qty
                  THEN "InsufficientStock"
             ELSE "none"
       IN IF rejection # "none"
          THEN /\ req' = [req EXCEPT ![w] =
                            CartResponse("cart_create", u, p, quantity, rejection)]
               /\ UNCHANGED <<cart, nextCartId>>
          ELSE /\ req' = [req EXCEPT ![w] = CartResponse("cart_create", u, p, quantity, "ok")]
               /\ CartAdd(u, p, quantity)
    /\ UNCHANGED <<product, orders, orderItems, payments, hist>>

\* the quantity of the line of (u, p), 0 when there is none
LineQuantity(u, p) ==
    IF CartLine(u, p) = {} THEN 0 ELSE (CHOOSE c \in CartLine(u, p) : TRUE).quantity

\* add_to_cart (web): the product is looked up among all products, and a
\* tracked product is refused when the requested quantity exceeds its stock.
\* The quantity of the form is taken as it comes, whatever its sign; the
\* CHECK (quantity >= 0) of the PositiveIntegerField column refuses a
\* negative value when the row is written.
WebAddToCart(w, u, p, quantity) ==
    /\ ~InFlight(w)
    /\ LET row == product[p]
           rejection ==
             IF row = NullProduct THEN "NotFound"
             ELSE IF row.track_inventory /\ row.stock_quantity < quantity
                  THEN "InsufficientStock"
             ELSE IF LineQuantity(u, p) + quantity < 0 THEN "IntegrityError"
             ELSE "none"
       IN IF rejection # "none"
          THEN /\ req' = [req EXCEPT ![w] = CartResponse("web_add", u, p, quantity, rejection)]
               /\ UNCHANGED <<cart, nextCartId>>
          ELSE /\ req' = [req EXCEPT ![w] = CartResponse("web_add", u, p, quantity, "ok")]
               /\ CartAdd(u, p, quantity)
    /\ UNCHANGED <<product, orders, orderItems, payments, hist>>

\* UpdateCartItemView.patch
UpdateCartItem(u, item_id, quantity) ==
    /\ quantity >= 1
    /\ \E c \in cart :
         /\ c.id = item_id /\ c.user = u
         /\ c.quantity # quantity
         /\ cart' = (cart \ {c}) \cup {[c EXCEPT !.quantity = quantity]}
    /\ UNCHANGED <<product, nextCartId, orders, orderItems, payments, req, hist>>

\* RemoveCartItemView.delete
RemoveCartItem(u, item_id) ==
    /\ \E c \in cart :
         /\ c.id = item_id /\ c.user = u
         /\ cart' = cart \ {c}
    /\ UNCHANGED <<product, nextCartId, orders, orderItems, payments, req, hist>>

\* what a worker keeps of a request about a cart row it has answered
ItemResponse(kind, u, item_id, quantity, result) ==
    [IdleReq EXCEPT !.kind = kind, !.pc = "done", !.user = u, !.item = item_id,
                    !.delta = quantity, !.result = result]

\* the cart row item_id of user u, as a set
OwnItem(u, item_id) == {c \in cart : c.id = item_id /\ c.user = u}

\* UpdateCartItemView.patch with its response
UpdateCartItemPatch(w, u, item_id, quantity) ==
    /\ ~InFlight(w)
    /\ LET rejection ==
             IF quantity < 1 THEN "ValidationError"
             ELSE IF OwnItem(u, item_id) = {} THEN "NotFound"
             ELSE "none"
       IN /\ req' = [req EXCEPT ![w] =
                       ItemResponse("item_patch", u, item_id, quantity,
                                    IF rejection # "none" THEN rejection ELSE "ok")]
          /\ cart' = IF rejection # "none" THEN cart
                     ELSE {IF c \in OwnItem(u, item_id) THEN [c EXCEPT !.quantity = quantity]
                           ELSE c : c \in cart}
    /\ UNCHANGED <<product, nextCartId, orders, orderItems, payments, hist>>

\* update_cart (web): a quantity above 0 is stored, any other removes the line
WebUpdateCart(w, u, p, quantity) ==
    /\ ~InFlight(w)
    /\ LET row == product[p]
           rejection ==
             IF row = NullProduct THEN "NotFound"
             ELSE IF quantity > 0 /\ row.track_inventory /\ row.stock_quantity < quantity
                  THEN "InsufficientStock"
             ELSE IF quantity > 0 /\ CartLine(u, p) = {} THEN "NotFound"
             ELSE "none"
       IN /\ req' = [req EXCEPT ![w] =
                       CartResponse("web_update", u, p, quantity,
                                    IF rejection # "none" THEN rejection ELSE "ok")]
          /\ cart' = IF rejection # "none" THEN cart
                     ELSE IF quantity > 0
                     THEN {IF c \in CartLine(u, p) THEN [c EXCEPT !.quantity = quantity]
                           ELSE c : c \in cart}
                     ELSE cart \ CartLine(u, p)
    /\ UNCHANGED <<product, nextCartId, orders, orderItems, payments, hist>>

\* CartViewSet.partial_update: a quantity below 1 deletes the row
CartViewSetPartialUpdate(w, u, item_id, quantity) ==
    /\ ~InFlight(w)
    /\ LET rejection ==
             IF OwnItem(u, item_id) = {} THEN "NotFound"
             ELSE IF quantity < 1 THEN "none"
             ELSE IF \E c \in OwnItem(u, item_id) :
                       /\ product[c.product].track_inventory
                       /\ product[c.product].stock_quantity < quantity
                  THEN "InsufficientStock"
             ELSE "none"
       IN /\ req' = [req EXCEPT ![w] =
                       ItemResponse("item_partial_update", u, item_id, quantity,
                                    IF rejection # "none" THEN rejection ELSE "ok")]
          /\ cart' = IF rejection # "none" THEN cart
                     ELSE IF quantity < 1 THEN cart \ OwnItem(u, item_id)
                     ELSE {IF c \in OwnItem(u, item_id) THEN [c EXCEPT !.quantity = quantity]
                           ELSE c : c \in cart}
    /\ UNCHANGED <<product, nextCartId, orders, orderItems, payments, hist>>

\* RemoveCartItemView.delete with its response
RemoveCartItemDelete(w, u, item_id) ==
    /\ ~InFlight(w)
    /\ req' = [req EXCEPT ![w] =
                 ItemResponse("item_delete", u, item_id, 0,
                              IF OwnItem(u, item_id) = {} THEN "NotFound" ELSE "ok")]
    /\ cart' = cart \ OwnItem(u, item_id)
    /\ UNCHANGED <<product, nextCartId, orders, orderItems, payments, hist>>

\* ------------------------------------------------------- stock adjustment
\* variant: the stored value is clamped at 0 for every product
AdjustedQuantityClamped(row, delta) == Max(row.stock_quantity + delta, 0)

\* new_qty and the value ProductStockAdjustView.patch stores for it
AdjustedQuantity(row, delta) ==
    IF row.track_inventory THEN Max(row.stock_quantity + delta, 0)
    ELSE row.stock_quantity + delta

AdjustedStatus(row, qty) ==
    IF row.track_inventory
    THEN IF qty <= 0 THEN "out_of_stock"
         ELSE IF row.status = "out_of_stock" /\ qty > 0 THEN "active"
         ELSE row.status
    ELSE row.status

\* the response of ProductStockAdjustView.patch that ends the request early
AdjustRejection(u, row, delta) ==
    IF row.status # "active" THEN "NotFound"
    ELSE IF ~_can_adjust_stock(u, row) THEN "PermissionDenied"
    ELSE IF delta = 0 THEN "ValidationError"
    ELSE IF row.track_inventory /\ row.stock_quantity + delta < 0 THEN "InsufficientStock"
    ELSE "none"

\* ProductStockAdjustView.patch up to the save: the product is read and checked
AdjustStockRead(r, u, p, delta) ==
    /\ CanStart(r)
    /\ LET row == product[p]
           rej == AdjustRejection(u, row, delta)
           base == [IdleReq EXCEPT !.kind = "adjust", !.user = u, !.product = p,
                                   !.delta = delta, !.conc = Overlaps(r)]
       IN req' = [req EXCEPT ![r] =
                    IF rej # "none"
                    THEN Answered(base, rej)
                    ELSE [base EXCEPT !.pc = "save", !.obj = row]]
    /\ UNCHANGED tables
    /\ Started

\* ProductStockAdjustView.patch: product.save(update_fields=[stock_quantity, status])
AdjustStockSave(r) ==
    /\ req[r].kind = "adjust" /\ req[r].pc = "save"
    /\ LET row == req[r].obj
           qty == AdjustedQuantity(row, req[r].delta)
       IN product' = [product EXCEPT ![req[r].product] =
                        [@ EXCEPT !.stock_quantity = qty, !.status = AdjustedStatus(row, qty)]]
    /\ req' = [req EXCEPT ![r] = Answered(@, "ok")]
    /\ applied' = [applied EXCEPT ![req[r].product] = @ + req[r].delta]
    /\ restocked' = [restocked EXCEPT ![req[r].product] = @ \/ req[r].delta > 0]
    /\ UNCHANGED <<cart, nextCartId, orders, orderItems, payments, stock0, issued>>

\* the response of ProductViewSet.adjust_stock that ends the request early
ViewSetAdjustRejection(row, delta) ==
    IF row = NullProduct THEN "NotFound"
    ELSE IF delta = 0 THEN "ValidationError"
    ELSE IF row.stock_quantity + delta < 0 THEN "InsufficientStock"
    ELSE "none"

\* ProductViewSet.adjust_stock up to the save
ViewSetAdjustRead(r, u, p, delta) ==
    /\ CanStart(r)
    /\ CustomUser[u].is_authenticated
    /\ LET row == product[p]
           rej == ViewSetAdjustRejection(row, delta)
           base == [IdleReq EXCEPT !.kind = "viewset_adjust", !.user = u, !.product = p,
                                   !.delta = delta]
       IN req' = [req EXCEPT ![r] =
                    IF rej # "none"
                    THEN Answered(base, rej)
                    ELSE [base EXCEPT !.pc = "save", !.obj = row]]
    /\ UNCHANGED tables
    /\ Started

\* ProductViewSet.adjust_stock: product.save(update_fields=[stock_quantity])
ViewSetAdjustSave(r) ==
    /\ req[r].kind = "viewset_adjust" /\ req[r].pc = "save"
    /\ product' = [product EXCEPT ![req[r].product].stock_quantity =
                     req[r].obj.stock_quantity + req[r].delta]
    /\ req' = [req EXCEPT ![r] = Answered(@, "ok")]
    /\ applied' = [applied EXCEPT ![req[r].product] = @ + req[r].delta]
    /\ restocked' = [restocked EXCEPT ![req[r].product] = @ \/ req[r].delta > 0]
    /\ UNCHANGED <<cart, nextCartId, orders, orderItems, payments, stock0, issued>>

\* --------------------------------------------------------- product update
\* variant: the new price is also written to the order items of the product
ProductUpdateReprices(db, p, price) ==
    [db EXCEPT !.product[p].price = price,
               !.orderItems = {[i EXCEPT !.price = IF i.product = p THEN price ELSE @] : i \in @}]

\* ProductUpdateView.patch with body {price}: serializer.save() writes the row
ProductUpdateSave(db, p, price) ==
    [db EXCEPT !.product[p].price = price]

ProductUpdate(u, p, price) ==
    /\ _can_adjust_stock(u, product[p])
    /\ price # product[p].price
    /\ product' = ProductUpdateSave(DB, p, price).product
    /\ orders' = ProductUpdateSave(DB, p, price).orders
    /\ orderItems' = ProductUpdateSave(DB, p, price).orderItems
    /\ UNCHANGED <<cart, nextCartId, payments, req, hist>>

\* ProductUpdateView.patch with body {visibility}
ProductVisibilityUpdate(u, p, visibility) ==
    /\ product[p] # NullProduct
    /\ _can_adjust_stock(u, product[p])
    /\ visibility # product[p].visibility
    /\ product' = [product EXCEPT ![p].visibility = visibility]
    /\ UNCHANGED <<cart, nextCartId, orders, orderItems, payments, req, hist>>

\* The requests below record their response, so that a rejected one is seen.
\* ProductUpdateView.patch with body {price}
ProductPatch(w, u, p, price) ==
    /\ ~InFlight(w)
    /\ LET answer(result) ==
             [IdleReq EXCEPT !.kind = "patch", !.pc = "done", !.user = u, !.product = p,
                             !.result = result]
           rejection ==
             IF ~CustomUser[u].is_authenticated THEN "NotAuthenticated"
             ELSE IF product[p] = NullProduct THEN "NotFound"
             ELSE IF ~_can_adjust_stock(u, product[p]) THEN "PermissionDenied"
             ELSE "none"
       IN IF rejection # "none"
          THEN /\ req' = [req EXCEPT ![w] = answer(rejection)]
               /\ UNCHANGED <<product, orders, orderItems>>
          ELSE /\ req' = [req EXCEPT ![w] = answer("ok")]
               /\ product' = ProductUpdateSave(DB, p, price).product
               /\ orders' = ProductUpdateSave(DB, p, price).orders
               /\ orderItems' = ProductUpdateSave(DB, p, price).orderItems
    /\ UNCHANGED <<cart, nextCartId, payments, hist>>

\* product.delete(): the row goes, and with it the Cart and OrderItem rows
\* that reference it (on_delete=CASCADE)
DeleteCascade(db, p) ==
    [db EXCEPT !.product[p] = NullProduct,
               !.cart = {c \in @ : c.product # p},
               !.orderItems = {i \in @ : i.product # p}]

\* ProductDeleteView.delete
ProductDelete(w, u, p) ==
    /\ ~InFlight(w)
    /\ LET answer(result) ==
             [IdleReq EXCEPT !.kind = "delete", !.pc = "done", !.user = u, !.product = p,
                             !.result = result]
           rejection ==
             IF ~CustomUser[u].is_authenticated THEN "NotAuthenticated"
             ELSE IF product[p] = NullProduct THEN "NotFound"
             ELSE IF ~_can_adjust_stock(u, product[p]) THEN "PermissionDenied"
             ELSE "none"
       IN IF rejection # "none"
          THEN /\ req' = [req EXCEPT ![w] = answer(rejection)]
               /\ UNCHANGED <<product, cart, orderItems>>
          ELSE /\ req' = [req EXCEPT ![w] = answer("ok")]
               /\ product' = DeleteCascade(DB, p).product
               /\ cart' = DeleteCascade(DB, p).cart
               /\ orderItems' = DeleteCascade(DB, p).orderItems
    /\ UNCHANGED <<nextCartId, orders, payments, hist>>

\* vendor_edit_product and vendor_delete_product look the product up among
\* all products for staff and among the user's own as vendor otherwise
VendorLookup(u, p) ==
    IF ~CustomUser[u].is_authenticated THEN "LoginRequired"
    ELSE IF product[p] = NullProduct THEN "NotFound"
    ELSE IF ~CustomUser[u].is_staff /\ product[p].vendor # u THEN "NotFound"
    ELSE "none"

\* vendor_edit_product, POST of the form with another price
VendorEditProduct(w, u, p, price) ==
    /\ ~InFlight(w)
    /\ LET answer(result) ==
             [IdleReq EXCEPT !.kind = "vendor_edit", !.pc = "done", !.user = u,
                             !.product = p, !.result = result]
       IN IF VendorLookup(u, p) # "none"
          THEN /\ req' = [req EXCEPT ![w] = answer(VendorLookup(u, p))]
               /\ UNCHANGED <<product, orders, orderItems>>
          ELSE /\ req' = [req EXCEPT ![w] = answer("ok")]
               /\ product' = ProductUpdateSave(DB, p, price).product
               /\ orders' = ProductUpdateSave(DB, p, price).orders
               /\ orderItems' = ProductUpdateSave(DB, p, price).orderItems
    /\ UNCHANGED <<cart, nextCartId, payments, hist>>

\* vendor_delete_product, POST
VendorDeleteProduct(w, u, p) ==
    /\ ~InFlight(w)
    /\ LET answer(result) ==
             [IdleReq EXCEPT !.kind = "vendor_delete", !.pc = "done", !.user = u,
                             !.product = p, !.result = result]
       IN IF VendorLookup(u, p) # "none"
          THEN /\ req' = [req EXCEPT ![w] = answer(VendorLookup(u, p))]
               /\ UNCHANGED <<product, cart, orderItems>>
          ELSE /\ req' = [req EXCEPT ![w] = answer("ok")]
               /\ product' = DeleteCascade(DB, p).product
               /\ cart' = DeleteCascade(DB, p).cart
               /\ orderItems' = DeleteCascade(DB, p).orderItems
    /\ UNCHANGED <<nextCartId, orders, payments, hist>>

\* ------------------------------------------------------------ transactions
\* A transaction in progress: the database as the transaction sees it, and the
\* exception that has been raised in it ("" while none has).
Begin(db) == [db |-> db, exc |-> ""]

\* variant: the writes made before the exception stay
TransactionKeepsWrites(db, t) == t.db

\* transaction.atomic: an exception leaving the block rolls its writes back
TransactionAtomic(db, t) == IF t.exc # "" THEN db ELSE t.db

\* Decimal value v (ten-thousandths) as stored in a DecimalField(decimal_places=2):
\* quantized to hundredths, ties to even.
QuantizeCents(v) ==
    LET q == v \div 100
        rem == v % 100
    IN IF rem > 50 \/ (rem = 50 /\ q % 2 = 1) THEN q + 1 ELSE q

\* Order.save: the random order_number is one no order has (written as the next
\* integer) or the one of an existing order
OrderNumbers == {o.order_number : o \in orders} \cup {Cardinality(orders) + 1}

\* Order.objects.create: order_number is unique
OrderCreate(t, o) ==
    IF t.exc # "" THEN t
    ELSE IF \E x \in t.db.orders : x.order_number = o.order_number
    THEN [t EXCEPT !.exc = "IntegrityError:order_number"]
    ELSE [t EXCEPT !.db.orders = @ \cup {o}]

\* Payment.objects.create: transaction_id is unique and is created blank (0)
PaymentCreate(t, pay) ==
    IF t.exc # "" THEN t
    ELSE IF \E x \in t.db.payments : x.transaction_id = pay.transaction_id
    THEN [t EXCEPT !.exc = "IntegrityError:transaction_id"]
    ELSE [t EXCEPT !.db.payments = @ \cup {pay}]

\* cart_items.delete(): the queryset is run again, as a DELETE
CartDelete(t, u) ==
    IF t.exc # "" THEN t
    ELSE [t EXCEPT !.db.cart = {c \in @ : c.user # u}]

\* OrderItem.objects.create for every line the request has read
OrderItemsCreate(t, oid, lines) ==
    IF t.exc # "" THEN t
    ELSE [t EXCEPT !.db.orderItems = @ \cup
            {[order |-> oid, product |-> l.product, quantity |-> l.quantity,
              price |-> l.row.price, cart_id |-> l.cart_id] : l \in lines}]

\* ---------------------------------------------------------------- checkout
\* The cart rows of user u joined with their products (select_related)
CartSnapshot(u) ==
    {[cart_id |-> c.id, product |-> c.product, quantity |-> c.quantity,
      row |-> product[c.product]] : c \in {x \in cart : x.user = u}}

\* variant: the quantity of a line is left out of the sum
SubtotalOfUnitPrices(lines) == SumFn([l \in lines |-> l.row.price], lines)

\* sum of final_price * quantity over the lines that were read (hundredths)
Subtotal(lines) == SumFn([l \in lines |-> l.row.price * l.quantity], lines)

\* CreateOrderSerializer.validate_payment_method
ValidPaymentMethod(value) == value \in {"bank_transfer", "mpesa"}

\* Cart.Meta.ordering = ['-added_at']: the first of the lines ls in queryset order
FirstLine(ls) == CHOOSE l \in ls : \A x \in ls : x.cart_id <= l.cart_id

\* CheckoutCreateOrderView.post: 400 "Insufficient stock for {name}. Available: {stock}"
ApiInsufficientStock(rq, l) ==
    [Answered(rq, "InsufficientStock") EXCEPT !.product = l.product,
                                              !.available = l.row.stock_quantity]

\* place_order: success False, "Insufficient stock for {name}"
WebInsufficientStock(rq, l) ==
    [Answered(rq, "InsufficientStock") EXCEPT !.product = l.product]

\* CheckoutCreateOrderView.post: the stock check of one line
ApiStockInsufficient(l) == l.row.track_inventory /\ l.quantity > l.row.stock_quantity

\* CheckoutCreateOrderView.post: the Product row written for line l
ApiStockWrite(l) ==
    LET qty == Max(l.row.stock_quantity - l.quantity, 0)
    IN [stock_quantity |-> qty,
        status |-> IF qty = 0 THEN "out_of_stock" ELSE l.row.status]

\* product.save(update_fields=["stock_quantity", "status", "updated_at"]) per tracked line
ApiStockSave(t, lines) ==
    IF t.exc # "" THEN t
    ELSE [t EXCEPT !.db.product =
            [p \in Products |->
               IF \E l \in lines : l.product = p /\ l.row.track_inventory
               THEN LET l == CHOOSE x \in lines : x.product = p
                    IN [@[p] EXCEPT !.stock_quantity = ApiStockWrite(l).stock_quantity,
                                    !.status = ApiStockWrite(l).status]
               ELSE @[p]]]

\* variant: every payment starts pending
ApiPaymentStatusPending(payment_method) == "pending"

ApiPaymentStatus(payment_method) ==
    IF payment_method = "bank_transfer" THEN "completed" ELSE "pending"

\* CheckoutCreateOrderView.post from Order.objects.create to cart_items.delete()
ApiCommitTx(db, rq, order_number) ==
    LET oid == Cardinality(db.orders) + 1
        subtotal == Subtotal(rq.lines)
        t1 == OrderCreate(Begin(db),
                [id |-> oid, user |-> rq.user, order_number |-> order_number,
                 total_amount |-> QuantizeCents(subtotal * 100), status |-> "pending",
                 via |-> "api"])
        t2 == ApiStockSave(OrderItemsCreate(t1, oid, rq.lines), rq.lines)
        t3 == PaymentCreate(t2,
                [id |-> Cardinality(db.payments) + 1, order |-> oid,
                 payment_method |-> rq.payment_method,
                 amount |-> QuantizeCents(subtotal * 100),
                 status |-> ApiPaymentStatus(rq.payment_method), transaction_id |-> 0])
    IN CartDelete(t3, rq.user)

\* CheckoutCreateOrderView.post: serializer.is_valid, then cart_items.exists()
ApiCheckoutBegin(r, u, payment_method) ==
    /\ CanStart(r)
    /\ LET base == [IdleReq EXCEPT !.kind = "api", !.user = u,
                                   !.payment_method = payment_method]
       IN req' = [req EXCEPT ![r] =
                    IF ~ValidPaymentMethod(payment_method)
                    THEN Answered(base, "ValidationError")
                    ELSE IF {c \in cart : c.user = u} = {}
                    THEN Answered(base, "EmptyCart")
                    ELSE [base EXCEPT !.pc = "iterate"]]
    /\ UNCHANGED tables
    /\ Started

\* CheckoutCreateOrderView.post: the first loop evaluates the queryset
ApiCheckoutRead(r) ==
    /\ req[r].kind = "api" /\ req[r].pc = "iterate"
    /\ LET lines == CartSnapshot(req[r].user)
       IN req' = [req EXCEPT ![r] =
                    IF \E l \in lines : ApiStockInsufficient(l)
                    THEN ApiInsufficientStock(@, FirstLine({l \in lines : ApiStockInsufficient(l)}))
                    ELSE [@ EXCEPT !.pc = "commit", !.lines = lines]]
    /\ UNCHANGED <<tables, hist>>

\* the writes of a committed or rolled-back transaction reach the tables
Apply(db) ==
    /\ product' = db.product
    /\ cart' = db.cart
    /\ nextCartId' = db.nextCartId
    /\ orders' = db.orders
    /\ orderItems' = db.orderItems
    /\ payments' = db.payments

Finished(rq, t) == Answered(rq, IF t.exc = "" THEN "ok" ELSE t.exc)

\* CheckoutCreateOrderView.post: the writes, inside @transaction.atomic
ApiCheckoutCommit(r, order_number) ==
    /\ req[r].kind = "api" /\ req[r].pc = "commit"
    /\ LET t == ApiCommitTx(DB, req[r], order_number)
       IN /\ Apply(TransactionAtomic(DB, t))
          /\ req' = [req EXCEPT ![r] = Finished(@, t)]
    /\ UNCHANGED hist

\* variant: the stock check is skipped
WebStockUnchecked(l) == FALSE

\* place_order: the stock check of one line
WebStockInsufficient(l) == l.row.track_inventory /\ l.row.stock_quantity < l.quantity

\* place_order: subtotal + 18% tax + shipping, as a Decimal (ten-thousandths)
WebTotal(subtotal) == subtotal * 100 + subtotal * TaxRatePercent + ShippingCost * 100

\* place_order: cart_item.product.save() writes every column of the instance
WebStockSave(t, lines) ==
    IF t.exc # "" THEN t
    ELSE [t EXCEPT !.db.product =
            [p \in Products |->
               IF \E l \in lines : l.product = p /\ l.row.track_inventory
               THEN LET l == CHOOSE x \in lines : x.product = p
                    IN [l.row EXCEPT !.stock_quantity = l.row.stock_quantity - l.quantity]
               ELSE @[p]]]

WebPaymentStatus(payment_method) == "pending"

\* place_order from Order.objects.create to cart_items.delete()
WebCommitTx(db, rq, order_number) ==
    LET oid == Cardinality(db.orders) + 1
        total_amount == WebTotal(Subtotal(rq.lines))
        t1 == OrderCreate(Begin(db),
                [id |-> oid, user |-> rq.user, order_number |-> order_number,
                 total_amount |-> QuantizeCents(total_amount), status |-> "pending",
                 via |-> "web"])
        t2 == WebStockSave(OrderItemsCreate(t1, oid, rq.lines), rq.lines)
        t3 == PaymentCreate(t2,
                [id |-> Cardinality(db.payments) + 1, order |-> oid,
                 payment_method |-> rq.payment_method,
                 amount |-> QuantizeCents(total_amount),
                 status |-> WebPaymentStatus(rq.payment_method), transaction_id |-> 0])
    IN CartDelete(t3, rq.user)

\* place_order up to the writes: the cart is read and the request is checked
WebCheckoutRead(r, u, payment_method) ==
    /\ CanStart(r)
    /\ LET lines == CartSnapshot(u)
           base == [IdleReq EXCEPT !.kind = "web", !.user = u,
                                   !.payment_method = payment_method]
       IN req' = [req EXCEPT ![r] =
                    IF lines = {}
                    THEN Answered(base, "EmptyCart")
                    ELSE IF \E l \in lines : WebStockInsufficient(l)
                    THEN WebInsufficientStock(base, FirstLine({l \in lines : WebStockInsufficient(l)}))
                    ELSE IF payment_method = ""
                    THEN Answered(base, "ValidationError")
                    ELSE [base EXCEPT !.pc = "commit", !.lines = lines]]
    /\ UNCHANGED tables
    /\ Started

\* place_order: the writes, inside transaction.atomic()
WebCheckoutCommit(r, order_number) ==
    /\ req[r].kind = "web" /\ req[r].pc = "commit"
    /\ LET t == WebCommitTx(DB, req[r], order_number)
       IN /\ Apply(TransactionAtomic(DB, t))
          /\ req' = [req EXCEPT ![r] = Finished(@, t)]
    /\ UNCHANGED hist

\* ---------------------------------------------------------------- payments
\* PaymentAdmin change form: the gateway reference is recorded on a payment
RecordTransactionId(pid) ==
    /\ \E pay \in payments :
         /\ pay.id = pid /\ pay.transaction_id = 0
         /\ payments' = (payments \ {pay}) \cup {[pay EXCEPT !.transaction_id = pay.id]}
    /\ UNCHANGED <<product, cart, nextCartId, orders, orderItems, req, hist>>

\* ---------------------------------------------------------- catalog reads
\* what a worker keeps of a catalog request it has answered: who asked, for
\* which product, the status of the response and the products it lists
Response(kind, u, p, result, listed) ==
    [IdleReq EXCEPT !.kind = kind, !.pc = "done", !.user = u, !.product = p,
                    !.result = result, !.lines = listed]

\* product.is_visible_to(user), evaluated on the stored row
CanView(w, u, p) ==
    /\ ~InFlight(w)
    /\ req' = [req EXCEPT ![w] =
                 Response("can_view", u, p,
                          IF is_visible_to(u, product[p]) THEN "visible" ELSE "hidden", {})]
    /\ UNCHANGED <<tables, hist>>

\* ProductListView: the visibility queryset, or with mine=1 the active
\* products the user created
ProductList(w, u, mine) ==
    /\ ~InFlight(w)
    /\ req' = [req EXCEPT ![w] =
                 IF ~CustomUser[u].is_authenticated
                 THEN Response(IF mine THEN "list_mine" ELSE "list", u, "none",
                               "NotAuthenticated", {})
                 ELSE Response(IF mine THEN "list_mine" ELSE "list", u, "none", "ok",
                               {p \in Products :
                                   IF mine
                                   THEN product[p].status = "active" /\ product[p].created_by = u
                                   ELSE InVisibilityQueryset(u, product[p])})]
    /\ UNCHANGED <<tables, hist>>

\* ProductDetailView: get(id) on the visibility queryset
ProductDetail(w, u, p) ==
    /\ ~InFlight(w)
    /\ req' = [req EXCEPT ![w] =
                 IF ~CustomUser[u].is_authenticated
                 THEN Response("detail", u, p, "NotAuthenticated", {})
                 ELSE IF InVisibilityQueryset(u, product[p])
                 THEN Response("detail", u, p, "ok", {p})
                 ELSE Response("detail", u, p, "NotFound", {})]
    /\ UNCHANGED <<tables, hist>>

\* product_list_view without filter parameters: every active product, for
\* any visitor
WebProductList(w, u) ==
    /\ ~InFlight(w)
    /\ req' = [req EXCEPT ![w] =
                 Response("web_list", u, "none", "ok",
                          {p \in Products : product[p].status = "active"})]
    /\ UNCHANGED <<tables, hist>>

\* ProductViewSet list without query parameters: every stored product, for
\* any visitor (safe methods need no authentication)
ViewSetProductList(w, u) ==
    /\ ~InFlight(w)
    /\ req' = [req EXCEPT ![w] =
                 Response("viewset_list", u, "none", "ok",
                          {p \in Products : product[p] # NullProduct})]
    /\ UNCHANGED <<tables, hist>>

\* ----------------------------------------------------------- specifications
\* Two workers serve the stock adjustments of the creator of p1 and the
\* checkouts of both customers, whose carts of p1 are filled meanwhile: u1
\* orders through the REST API, u2 through the web site.
Next ==
    \/ \E u \in Users, p \in TrackedProducts, q \in 1..MaxQty : AddToCart(u, p, q)
    \/ \E w \in Workers, p \in TrackedProducts, d \in Deltas :
         AdjustStockRead(w, "u1", p, d)
    \/ \E w \in Workers : AdjustStockSave(w)
    \/ \E w \in Workers : ApiCheckoutBegin(w, "u1", "mpesa")
    \/ \E w \in Workers : ApiCheckoutRead(w)
    \/ \E w \in Workers, n \in OrderNumbers : ApiCheckoutCommit(w, n)
    \/ \E w \in Workers : WebCheckoutRead(w, "u2", "bank_transfer")
    \/ \E w \in Workers, n \in OrderNumbers : WebCheckoutCommit(w, n)
    \/ \E pid \in 1..MaxReq : RecordTransactionId(pid)

Spec == Init /\ [][Next]_vars

\* One worker serves the checkouts of u1 with every payment method; the cart
\* of u1 holds both products.
NextCheckout ==
    \/ \E p \in Products, q \in 1..MaxQty : AddToCart("u1", p, q)
    \/ \E pm \in ApiPaymentMethods : ApiCheckoutBegin("w1", "u1", pm)
    \/ ApiCheckoutRead("w1")
    \/ \E n \in OrderNumbers : ApiCheckoutCommit("w1", n)
    \/ \E pm \in WebPaymentMethods : WebCheckoutRead("w1", "u1", pm)
    \/ \E n \in OrderNumbers : WebCheckoutCommit("w1", n)
    \/ \E pid \in 1..MaxReq : RecordTransactionId(pid)

SpecCheckout == Init /\ [][NextCheckout]_vars

\* One worker serves the requests while the cart of u1 is edited and the price
\* of p1 changes.
NextCatalog ==
    \/ \E p \in TrackedProducts, q \in 1..MaxQty : AddToCart("u1", p, q)
    \/ \E i \in 1..MaxCartId, q \in 1..MaxQty : UpdateCartItem("u1", i, q)
    \/ \E i \in 1..MaxCartId : RemoveCartItem("u1", i)
    \/ \E u \in Users, p \in TrackedProducts, pr \in Prices : ProductUpdate(u, p, pr)
    \/ \E u \in Users, p \in TrackedProducts, d \in Deltas : AdjustStockRead("w1", u, p, d)
    \/ AdjustStockSave("w1")
    \/ \E pm \in ApiPaymentMethods : ApiCheckoutBegin("w1", "u1", pm)
    \/ ApiCheckoutRead("w1")
    \/ \E n \in OrderNumbers : ApiCheckoutCommit("w1", n)
    \/ \E pm \in WebPaymentMethods : WebCheckoutRead("w1", "u1", pm)
    \/ \E n \in OrderNumbers : WebCheckoutCommit("w1", n)
    \/ \E pid \in 1..MaxReq : RecordTransactionId(pid)

SpecCatalog == Init /\ [][NextCatalog]_vars

NextVisibility ==
    \/ \E u \in Identities, p \in Products : CanView("w1", u, p)
    \/ \E u \in Identities, mine \in BOOLEAN : ProductList("w1", u, mine)
    \/ \E u \in Identities, p \in Products : ProductDetail("w1", u, p)
    \/ \E u \in Identities : WebProductList("w1", u)
    \/ \E u \in Identities : ViewSetProductList("w1", u)
    \/ \E u \in {"u2", "u4"}, p \in Products : AddToCart(u, p, 1)
SpecVisibility == InitCatalog /\ [][NextVisibility]_vars

\* A customer's cart line outlives a change of the product's visibility; the
\* creator edits the product while no checkout is being handled.
NextStaleCart ==
    \/ \E q \in 1..MaxQty : AddToCart("u2", "p1", q)
    \/ \E v \in {"unit", "vendor", "private"} :
         (\A w \in Workers : ~InFlight(w)) /\ ProductVisibilityUpdate("u1", "p1", v)
    \/ ApiCheckoutBegin("w1", "u2", "mpesa")
    \/ ApiCheckoutRead("w1")
    \/ \E n \in OrderNumbers : ApiCheckoutCommit("w1", n)
    \/ WebCheckoutRead("w1", "u2", "bank_transfer")
    \/ \E n \in OrderNumbers : WebCheckoutCommit("w1", n)
SpecStaleCart == Init /\ [][NextStaleCart]_vars

NextMutate ==
    \/ \E u \in Identities, pr \in Prices : ProductPatch("w1", u, "p1", pr)
    \/ \E u \in Identities : ProductDelete("w1", u, "p1")
    \/ \E u \in Identities, pr \in Prices : VendorEditProduct("w1", u, "p1", pr)
    \/ \E u \in Identities : VendorDeleteProduct("w1", u, "p1")
SpecMutate == InitCatalog /\ [][NextMutate]_vars

\* One worker adjusts the stock of the tracked and of the untracked product,
\* for the creator and for a customer, one request after the other.
NextStock ==
    \/ \E u \in Users, p \in Products, d \in BodyDeltas : AdjustStockRead("w1", u, p, d)
    \/ AdjustStockSave("w1")
    \/ \E u \in Users, p \in Products, d \in BodyDeltas : ViewSetAdjustRead("w1", u, p, d)
    \/ ViewSetAdjustSave("w1")
SpecStock == Init /\ [][NextStock]_vars

\* Two users fill and empty their carts through the three add-to-cart
\* handlers.
NextCart ==
    \/ \E u \in Users, p \in Products, q \in 1..MaxQty : AddToCartPost("w1", u, p, q)
    \/ \E u \in Users, p \in Products, q \in 1..MaxQty : CartViewSetCreate("w1", u, p, q)
    \/ \E u \in Users, p \in Products, q \in 1..MaxQty : WebAddToCart("w1", u, p, q)
    \/ \E u \in Users, i \in 1..MaxCartId : RemoveCartItem(u, i)
SpecCart == Init /\ [][NextCart]_vars

\* Two users add the tracked product to their carts, change the quantities
\* and remove the lines, through every cart handler and with quantities of
\* either sign.
NextCartEdit ==
    \/ \E u \in Users, q \in BodyQuantities : AddToCartPost("w1", u, "p1", q)
    \/ \E u \in Users, q \in BodyQuantities : CartViewSetCreate("w1", u, "p1", q)
    \/ \E u \in Users, q \in BodyQuantities : WebAddToCart("w1", u, "p1", q)
    \/ \E u \in Users, i \in 1..MaxCartId, q \in BodyQuantities :
         UpdateCartItemPatch("w1", u, i, q)
    \/ \E u \in Users, q \in BodyQuantities : WebUpdateCart("w1", u, "p1", q)
    \/ \E u \in Users, i \in 1..MaxCartId, q \in BodyQuantities :
         CartViewSetPartialUpdate("w1", u, i, q)
    \/ \E u \in Users, i \in 1..MaxCartId : RemoveCartItemDelete("w1", u, i)
SpecCartEdit == Init /\ [][NextCartEdit]_vars

\* Two users fill their carts with the tracked product through the API, change
\* and remove rows by id, naming their own rows and each other's, and check out.
\* An update carries a quantity that is refused or removes the row (0) or one
\* that is stored (1).
EditQuantities == {0, 1}

NextIsolation ==
    \/ \E u \in Users, q \in 1..MaxQty : AddToCartPost("w1", u, "p1", q)
    \/ \E u \in Users, i \in 1..MaxCartId, q \in EditQuantities :
         UpdateCartItemPatch("w1", u, i, q)
    \/ \E u \in Users, q \in EditQuantities : WebUpdateCart("w1", u, "p1", q)
    \/ \E u \in Users, i \in 1..MaxCartId, q \in EditQuantities :
         CartViewSetPartialUpdate("w1", u, i, q)
    \/ \E u \in Users, i \in 1..MaxCartId : RemoveCartItemDelete("w1", u, i)
    \/ \E u \in Users : ApiCheckoutBegin("w1", u, "mpesa")
    \/ ApiCheckoutRead("w1")
    \/ \E n \in OrderNumbers : ApiCheckoutCommit("w1", n)
SpecIsolation == Init /\ [][NextIsolation]_vars

\* ------------------------------------------------------------------ claims
Quiescent == \A w \in Workers : ~InFlight(w)

ItemsOf(oid) == {i \in orderItems : i.order = oid}

\* quantity of product p over the OrderItems of all committed orders
Sold(p) ==
    LET its == {i \in orderItems : i.product = p}
    IN SumFn([i \in its |-> i.quantity], its)

\* sum of price * quantity over the OrderItems of order oid
ItemsTotal(oid) == SumFn([i \in ItemsOf(oid) |-> i.price * i.quantity], ItemsOf(oid))

AnsweredAdjust(w, u, p, delta) ==
    /\ req[w].kind = "adjust" /\ req[w].pc = "done"
    /\ req[w].user = u /\ req[w].product = p /\ req[w].delta = delta

\* C1: in every reachable state every product with track_inventory has a
\* persisted stock_quantity >= 0, whatever the interleaving of stock
\* adjustments and checkouts.
C1_StockNonNegative ==
    \A p \in Products : product[p].track_inventory => product[p].stock_quantity >= 0

\* C1 witness: a tracked product is at 0 after a successful adjustment of it
\* and a committed order for it.
C1_Witness ==
    \E p \in Products :
        /\ product[p].track_inventory /\ product[p].stock_quantity = 0
        /\ applied[p] # 0 /\ Sold(p) > 0

\* C2 (original claim): once all requests are answered, the stock of a tracked
\* product is its initial stock plus the deltas of the successful adjustments
\* minus the quantities of the committed order lines.
C2_AppliedDeltasSum ==
    Quiescent =>
        \A p \in Products :
            product[p].track_inventory =>
                product[p].stock_quantity = stock0[p] + applied[p] - Sold(p)

\* quantity of product p in order oid
Ordered(oid, p) ==
    LET its == {i \in ItemsOf(oid) : i.product = p}
    IN SumFn([i \in its |-> i.quantity], its)

\* C3 (original claim): for a tracked product that is never restocked, two
\* checkouts by different identities whose combined quantity for the product
\* exceeds its initial stock do not both commit.
C3_NoOversell ==
    \A p \in Products :
        (product[p].track_inventory /\ ~restocked[p]) =>
            \A a, b \in orders :
                a.user # b.user => Ordered(a.id, p) + Ordered(b.id, p) <= stock0[p]

\* C4 (original claim): when the only two requests are concurrent
\* AdjustStock(p1, -1) calls of the creator of p1 and p1 started with stock 1,
\* exactly one succeeds, the other fails with InsufficientStock, and p1 ends at
\* 0 and out_of_stock.
C4_ScenarioD ==
    ( /\ stock0["p1"] = 1 /\ issued = 2
      /\ \A w \in Workers : AnsweredAdjust(w, "u1", "p1", -1)
      /\ \E w \in Workers : req[w].conc )
    => /\ \E w \in Workers :
            /\ req[w].result = "ok"
            /\ \A q \in Workers \ {w} : req[q].result = "InsufficientStock"
       /\ product["p1"].stock_quantity = 0
       /\ product["p1"].status = "out_of_stock"

\* C5 (original claim): a cart line is converted into the OrderItem of at most
\* one Order.
C5_CartLineOrderedOnce ==
    \A i, j \in orderItems : i.cart_id = j.cart_id => i = j

\* C6: a checkout step that does not end in success (the request is rejected,
\* is still being handled, or an exception is raised while the Order,
\* OrderItems, stock and Payment are written) leaves the carts, the products
\* and the Orders, OrderItems and Payments as they were.
C6_CheckoutAllOrNothing ==
    [][\A w \in Workers :
          (req'[w] # req[w] /\ req'[w].kind \in {"api", "web"} /\ req'[w].result # "ok")
          => UNCHANGED tables]_vars

\* C6 witness: a checkout has failed on the Payment insert, after its Order,
\* OrderItems and stock updates were written in the transaction.
C6_Witness ==
    \E w \in Workers :
        /\ req[w].kind \in {"api", "web"}
        /\ req[w].result = "IntegrityError:transaction_id"

C8_OrdersFrozen ==
    [][orders \subseteq orders' /\ orderItems \subseteq orderItems']_vars

\* C8 witness: the price of a product differs from the price frozen in an
\* OrderItem for it.
C8_Witness ==
    \E i \in orderItems : product[i.product].price # i.price

\* C9: every Order has exactly one Payment, whose amount is the Order's
\* total_amount, and every Payment belongs to an existing Order.
C9_OnePaymentPerOrder ==
    /\ \A o \in orders :
         /\ Cardinality({pay \in payments : pay.order = o.id}) = 1
         /\ \A pay \in payments : pay.order = o.id => pay.amount = o.total_amount
    /\ \A pay \in payments : \E o \in orders : o.id = pay.order

\* C9 witness: two checkouts have committed.
C9_Witness == Cardinality(orders) = 2 /\ Cardinality(payments) = 2

\* C10 (original claim): the Payment of every committed checkout is completed
\* if its method is bank_transfer and pending otherwise.
C10_CompletedIffBankTransfer ==
    \A pay \in payments :
        pay.status = IF pay.payment_method = "bank_transfer" THEN "completed" ELSE "pending"

\* C10 (amended): the Payment of a checkout committed by the API create-order
\* path is completed if its method is bank_transfer and pending otherwise; the
\* Payment of a checkout committed by place_order is pending whatever its method.
C10_PaymentStatusByPath ==
    \A pay \in payments : \A o \in orders :
        o.id = pay.order =>
            /\ o.via = "api" =>
                 pay.status = IF pay.payment_method = "bank_transfer"
                              THEN "completed" ELSE "pending"
            /\ o.via = "web" => pay.status = "pending"

\* C10 witness: a bank_transfer payment of each path exists.
C10_Witness ==
    \E a, b \in payments : \E oa, ob \in orders :
        /\ oa.id = a.order /\ oa.via = "api" /\ a.payment_method = "bank_transfer"
        /\ ob.id = b.order /\ ob.via = "web" /\ b.payment_method = "bank_transfer"

\* what section 4.1 of the specification grants
VisibilityRule(u, p) ==
    /\ CustomUser[u].is_authenticated
    /\ \/ CustomUser[u].is_superuser
       \/ CustomUser[u].role = "admin"
       \/ CustomUser[u].user_type = "admin"
       \/ p.created_by = u
       \/ (p.visibility = "vendor" /\ p.vendor = u)
       \/ (p.visibility = "unit" /\ CustomUser[u].unit_id # NoUnit
            /\ (CustomUser[u].unit_id = UnitOf(p.created_by)
                \/ CustomUser[u].unit_id = UnitOf(p.vendor)))

\* C11: for every identity and product, Product.is_visible_to answers true
\* exactly when the identity is authenticated and is a superuser, has role
\* admin or user_type admin, is the creator, is the vendor of a
\* vendor-visibility product, or shares a non-null unit with the creator or
\* the vendor of a unit-visibility product.
C11_CanViewIffRule ==
    \A w \in Workers :
        req[w].kind = "can_view" =>
            (req[w].result = "visible" <=> VisibilityRule(req[w].user, product[req[w].product]))

\* the products a catalog response answers about
Asked(rq) == IF rq.kind = "detail" THEN {rq.product} ELSE Products

\* C12: product list and product detail return an active product to an
\* authenticated identity exactly when Product.is_visible_to is true for it.
C12_ListAgreesWithCanView ==
    \A w \in Workers :
        (req[w].kind \in {"list", "detail"} /\ req[w].result # "NotAuthenticated") =>
            \A p \in Asked(req[w]) :
                product[p].status = "active" =>
                    (p \in req[w].lines <=> is_visible_to(req[w].user, product[p]))

\* the products a catalog response shows to the identity that asked
Shown(rq) ==
    IF rq.kind \in {"list", "list_mine", "detail", "web_list", "viewset_list"} THEN rq.lines
    ELSE IF rq.kind = "can_view" /\ rq.result = "visible" THEN {rq.product}
    ELSE {}

\* C13: no listing path, detail path or CanView answer shows a private
\* product to an identity that is neither its creator nor a global admin.
C13_PrivateStaysPrivate ==
    \A w \in Workers : \A p \in Shown(req[w]) :
        product[p].visibility = "private" =>
            (product[p].created_by = req[w].user \/ IsGlobalAdmin(req[w].user))

\* C14: an authenticated non-admin identity without a unit never gets a
\* unit-visibility product it did not create from the product list, the
\* product detail or add-to-cart, also when the product's creator or vendor
\* has no unit or the product has no creator.
C14_NoUnitSeesNoUnitProducts ==
    \A u \in Identities :
        (CustomUser[u].is_authenticated /\ ~IsGlobalAdmin(u) /\ CustomUser[u].unit_id = NoUnit) =>
            \A p \in Products :
                (product[p].visibility = "unit" /\ product[p].created_by # u) =>
                    /\ \A w \in Workers :
                         (req[w].kind \in {"list", "detail"} /\ req[w].user = u) =>
                             p \notin req[w].lines
                    /\ CartLine(u, p) = {}

\* C15: a checkout whose cart holds a line for a product the identity may not
\* view at that moment is answered ProductUnavailable and creates no order.
C15_CheckoutChecksVisibility ==
    [][\A w \in Workers :
         (/\ req[w].kind \in {"api", "web"} /\ req[w].pc = "commit" /\ req'[w].pc = "done"
          /\ \E l \in req[w].lines : ~VisibilityRule(req[w].user, product[l.product]))
         => (req'[w].result = "ProductUnavailable" /\ orders' = orders)]_vars

\* the rejection of a mutation by an identity that may not make it: 403 from
\* the API views; the web views answer 404, which is taken as the same
C16_Rejected(rq) ==
    IF rq.kind \in {"patch", "delete"} THEN rq.result = "PermissionDenied"
    ELSE rq.result = "NotFound"

\* C16: a product update or delete asked by an identity that is neither the
\* product's creator nor a global admin is answered PermissionDenied and
\* leaves the product as it was, whatever the identity may view and also
\* when it is the product's vendor.
C16_MutationOwnerOrAdminOnly ==
    [][\A w \in Workers :
         (/\ req'[w].kind \in {"patch", "delete", "vendor_edit", "vendor_delete"}
          /\ (req'[w] # req[w] \/ product' # product)
          /\ CustomUser[req'[w].user].is_authenticated
          /\ product[req'[w].product] # NullProduct
          /\ product[req'[w].product].created_by # req'[w].user
          /\ ~IsGlobalAdmin(req'[w].user))
         => (C16_Rejected(req'[w]) /\ product' = product)]_vars

\* the failure the specification gives a stock adjustment of row by u
C17_Failure(u, row, delta) ==
    IF row = NullProduct THEN "NotFound"
    ELSE IF ~(row.created_by = u \/ row.vendor = u \/ IsGlobalAdmin(u)) THEN "PermissionDenied"
    ELSE IF delta = 0 THEN "ValidationError"
    ELSE IF row.track_inventory /\ row.stock_quantity + delta < 0 THEN "InsufficientStock"
    ELSE "none"

\* C17: a stock adjustment fails exactly when the product does not exist
\* (NotFound), the identity is not its creator, its vendor or a global admin
\* (PermissionDenied), delta is 0 (error) or the product is tracked and
\* stock + delta < 0 (InsufficientStock); a failed one leaves the product's
\* stock_quantity and status as they were.
C17_AdjustFailsExactlyWhen ==
    [][\A w \in Workers :
         (issued' # issued /\ req'[w] # req[w] /\ req'[w].kind = "adjust") =>
            LET rq == req'[w]
                failure == C17_Failure(rq.user, product[rq.product], rq.delta)
            IN /\ (rq.pc = "done") <=> (failure # "none")
               /\ rq.pc = "done" => (rq.result = failure /\ product' = product)]_vars

\* C18: a successful stock adjustment that runs alone on a product with stock
\* s stores s + delta; for a tracked product the stored value is at least 0,
\* for an untracked product it is not clamped and can be negative.
C18_AdjustStoresSum ==
    [][\A w \in Workers :
         (/\ req[w].kind \in {"adjust", "viewset_adjust"} /\ req[w].pc = "save"
          /\ req'[w].pc = "done" /\ req'[w].result = "ok") =>
            LET p == req[w].product
            IN /\ product'[p].stock_quantity = product[p].stock_quantity + req[w].delta
               /\ product[p].track_inventory => product'[p].stock_quantity >= 0]_vars

\* an adjustment has taken the stock of the untracked product below zero
C18_Witness ==
    \E w \in Workers :
        /\ req[w].kind = "adjust" /\ req[w].pc = "done" /\ req[w].result = "ok"
        /\ ~product[req[w].product].track_inventory
        /\ product[req[w].product].stock_quantity < 0

\* the status the specification gives a product after a stock adjustment
C19_Status(u, row, delta) ==
    IF row.track_inventory /\ C17_Failure(u, row, delta) = "none"
    THEN IF row.stock_quantity + delta = 0 THEN "out_of_stock"
         ELSE IF row.status = "out_of_stock" THEN "active"
         ELSE row.status
    ELSE row.status

\* C19: a stock adjustment of a tracked product sets status out_of_stock when
\* the resulting quantity is 0 and sets it active when the resulting quantity
\* is above 0 and the status was out_of_stock, so that a positive delta on an
\* out_of_stock product restocks it; the status changes in no other case.
C19_StatusFollowsStock ==
    [][\A w \in Workers :
         (req'[w] # req[w] /\ req'[w].kind = "adjust" /\ req'[w].pc = "done") =>
            LET rq == req'[w]
            IN product'[rq.product].status =
                 C19_Status(rq.user, product[rq.product], rq.delta)]_vars

\* an add-to-cart request of u for p is answered in the step: the worker has
\* a new response, or the same response again and the cart has lost no line
C20_Add(w, u, p) ==
    /\ req'[w].kind \in {"cart_add", "cart_create", "web_add"}
    /\ \/ req'[w] # req[w]
       \/ (cart' # cart /\ {c.id : c \in cart} \subseteq {c.id : c \in cart'})
    /\ req'[w].user = u /\ req'[w].product = p

\* the quantity of the line of (u, p), 0 when there is none
C20_Quantity(u, p) ==
    IF CartLine(u, p) = {} THEN 0 ELSE (CHOOSE c \in CartLine(u, p) : TRUE).quantity

\* after the step there is one line for (u, p), and it has quantity qty
C20_OneLine(u, p, qty) ==
    /\ Cardinality(CartLine(u, p)') = 1
    /\ \A c \in CartLine(u, p)' : c.quantity = qty

C20_AtMostOneLine == \A u \in Users, p \in Products : Cardinality(CartLine(u, p)) <= 1

\* C20 as stated: adding a product that is already in the identity's cart
\* leaves one line for it, whose quantity is the sum of the two quantities,
\* and no state holds two lines for one (user, product).
C20_ReAddSums ==
    [][/\ C20_AtMostOneLine'
       /\ \A w \in Workers, u \in Users, p \in Products :
            (C20_Add(w, u, p) /\ req'[w].result # "NotFound" /\ CartLine(u, p) # {}) =>
                C20_OneLine(u, p, C20_Quantity(u, p) + req'[w].delta)]_vars

\* the add-to-cart request rq is accepted on the present tables
C20_Accepted(rq) ==
    LET row == product[rq.product]
    IN CASE rq.kind = "cart_add" -> InVisibilityQueryset(rq.user, row)
         [] rq.kind = "cart_create" ->
              /\ row # NullProduct
              /\ ~(row.track_inventory
                    /\ row.stock_quantity < C20_Quantity(rq.user, rq.product) + rq.delta)
         [] OTHER ->
              /\ row # NullProduct
              /\ ~(row.track_inventory /\ row.stock_quantity < rq.delta)

\* C20 amended: an accepted add leaves one line for (user, product) whose
\* quantity is the former quantity plus the requested one; AddToCartView
\* accepts every add of a visible product, CartViewSet.create refuses a
\* tracked product when the resulting quantity exceeds its stock, the web
\* add_to_cart when the requested quantity does; a refused add leaves the
\* cart as it was; no state holds two lines for one (user, product).
C20_AcceptedReAddSums ==
    [][/\ C20_AtMostOneLine'
       /\ \A w \in Workers, u \in Users, p \in Products :
            C20_Add(w, u, p) =>
                /\ (req'[w].result = "ok") <=> C20_Accepted(req'[w])
                /\ IF req'[w].result = "ok"
                   THEN C20_OneLine(u, p, C20_Quantity(u, p) + req'[w].delta)
                   ELSE cart' = cart]_vars

\* an accepted add has raised a line that was there: the line holds more than
\* the request asked for
C20_Witness ==
    \E w \in Workers :
        /\ req[w].kind \in {"cart_add", "cart_create", "web_add"} /\ req[w].result = "ok"
        /\ \E c \in CartLine(req[w].user, req[w].product) : c.quantity > req[w].delta

\* C21: every cart line has quantity >= 1, whatever integer quantities the
\* add, update and remove requests of the cart handlers carry.
C21_QuantityAtLeastOne == \A c \in cart : c.quantity >= 1

\* an update request for a line of u is answered in the step: the line it
\* names, as a set (empty when the request names no line of u)
C22_Named(rq) ==
    IF rq.kind = "web_update" THEN CartLine(rq.user, rq.product)
    ELSE OwnItem(rq.user, rq.item)

\* C22: a cart update request with quantity zero or negative removes the
\* line it names: afterwards the line is gone; it is neither stored with a
\* quantity below 1 nor left in place by a rejection.
C22_NonPositiveUpdateRemoves ==
    [][\A w \in Workers :
         (/\ req'[w].kind \in {"item_patch", "web_update", "item_partial_update"}
          /\ (req'[w] # req[w] \/ cart' # cart)
          /\ req'[w].delta < 1
          /\ C22_Named(req'[w]) # {})
         => \A c \in C22_Named(req'[w]) : \A d \in cart' : d.id # c.id]_vars


\* C23 helper: the effects of a committed checkout of the lines read by rq
C23_Effects(rq) ==
    /\ \E o \in orders' :
         /\ orders' = orders \cup {o} /\ o \notin orders
         /\ o.user = rq.user /\ o.status = "pending"
         /\ \A l \in rq.lines :
              \E i \in orderItems' \ orderItems :
                 /\ i.order = o.id /\ i.product = l.product
                 /\ i.quantity = l.quantity /\ i.price = product[l.product].price
         /\ Cardinality(orderItems' \ orderItems) = Cardinality(rq.lines)
    /\ \A p \in Products :
         product'[p].stock_quantity =
            IF product[p].track_inventory /\ \E l \in rq.lines : l.product = p
            THEN product[p].stock_quantity - (CHOOSE l \in rq.lines : l.product = p).quantity
            ELSE product[p].stock_quantity
    /\ \A c \in cart' : c.user # rq.user

\* C23: an API checkout that runs alone (the cart and the products are as it
\* read them) on a non-empty cart whose tracked lines all have quantity <=
\* stock commits: one pending Order, one OrderItem per cart line at the
\* product's current price, tracked stock reduced by exactly the line quantity,
\* untracked stock unchanged, and the identity's cart left empty.
C23_AloneCheckoutCommits ==
    [][\A w \in Workers :
         (/\ req[w].kind = "api" /\ req[w].pc = "commit" /\ req'[w].pc = "done"
          /\ req[w].lines = CartSnapshot(req[w].user)
          /\ req[w].lines # {}
          /\ \A l \in req[w].lines : ~ApiStockInsufficient(l))
         => (req'[w].result = "ok" /\ C23_Effects(req[w]))]_vars


\* C24 helper: worker w runs the stock check of a checkout of identity u
C24_StockCheck(w, u) ==
    \/ ApiCheckoutRead(w) /\ req[w].user = u
    \/ \E pm \in WebPaymentMethods : WebCheckoutRead(w, u, pm)

\* C24 helper: the cart lines of u that ask for more than the tracked stock
C24_Short(u) ==
    {c \in cart : /\ c.user = u /\ product[c.product].track_inventory
                  /\ c.quantity > product[c.product].stock_quantity}

\* C24: a checkout whose cart holds a tracked line with quantity greater than
\* the product's stock fails with InsufficientStock, the answer names such a
\* product and carries its available quantity, and the products' stock and the
\* cart lines keep their prior values.
C24_InsufficientStockCarriesAvailable ==
    [][\A w \in Workers, u \in Users :
         (C24_StockCheck(w, u) /\ C24_Short(u) # {})
         => /\ req'[w].result = "InsufficientStock"
            /\ \E c \in C24_Short(u) :
                 /\ req'[w].product = c.product
                 /\ req'[w].available = product[c.product].stock_quantity
            /\ product' = product /\ cart' = cart]_vars


\* C25 helper: worker w commits a checkout of kind k
C25_Commits(w, k) ==
    req[w].kind = k /\ req[w].pc = "commit" /\ req'[w].result = "ok"

\* C25 helper: the tracked products whose stock reaches 0 in the step
C25_Emptied ==
    {p \in Products : /\ product[p].track_inventory
                      /\ product[p].stock_quantity > 0
                      /\ product'[p].stock_quantity = 0}

\* C25: after a committed checkout, on the API create-order path or the web
\* place_order path, every tracked product whose stock_quantity reached 0
\* through that checkout has status out_of_stock.
C25_EmptiedIsOutOfStock ==
    [][\A w \in Workers :
         (C25_Commits(w, "api") \/ C25_Commits(w, "web"))
         => \A p \in C25_Emptied : product'[p].status = "out_of_stock"]_vars


\* C26 helper: no two Orders of the set share an order_number
C26_Distinct(os) == \A a, b \in os : a.order_number = b.order_number => a.id = b.id

\* C26: every Order has an order_number distinct from every other Order's, and
\* no checkout fails on a collision of its generated order_number with an
\* existing one: the number is generated again and the checkout commits.
C26_OrderNumberCollisionRetried ==
    [][/\ C26_Distinct(orders')
       /\ \A w \in Workers :
            (req'[w] # req[w] /\ req'[w].kind \in {"api", "web"})
            => req'[w].result # "IntegrityError:order_number"]_vars


\* C27: on every add-to-cart path, an add of a product that is not visible to
\* the identity, or that does not exist, is answered NotFound and creates or
\* changes no cart line.
C27_InvisibleAddNotFound ==
    [][\A w \in Workers, u \in Users, p \in Products :
         (/\ C20_Add(w, u, p)
          /\ (product[p] = NullProduct \/ ~VisibilityRule(u, product[p])))
         => (req'[w].result = "NotFound" /\ cart' = cart)]_vars


\* C28: a creator reads their own products whatever their status: product
\* detail asked by the creator returns the product, and the creator's
\* mine-only listing returns every product the creator created.
C28_CreatorReadsOwn ==
    \A w \in Workers :
        /\ (req[w].kind = "detail" /\ product[req[w].product].created_by = req[w].user)
           => (req[w].result = "ok" /\ req[w].lines = {req[w].product})
        /\ (req[w].kind = "list_mine" /\ req[w].result # "NotAuthenticated")
           => req[w].lines = {p \in Products : product[p].created_by = req[w].user}


\* C29: a committed checkout deletes exactly the cart lines it converted into
\* OrderItems: every line it deletes, with the quantity the line has when it is
\* deleted, is an OrderItem of the new Order, so a line the identity added or
\* changed after the checkout read the cart is not lost.
C29_DeletesOnlyConverted ==
    [][\A w \in Workers :
         (C25_Commits(w, "api") \/ C25_Commits(w, "web"))
         => \A c \in cart \ cart' :
               \E i \in orderItems' \ orderItems :
                  i.product = c.product /\ i.quantity = c.quantity]_vars


\* C30 helper: the handlers that name a cart row by its id
C30_ItemKinds == {"item_patch", "item_partial_update", "item_delete"}

\* C30 helper: the step is a cart update, a cart remove or a checkout step of
\* worker w on behalf of identity u
C30_Acts(w, u) ==
    \/ /\ req'[w].kind \in C30_ItemKinds \cup {"web_update"}
       /\ req'[w].user = u
       /\ (req'[w] # req[w] \/ cart' # cart)
    \/ req[w].kind = "api" /\ InFlight(w) /\ req[w].user = u

\* C30 helper: the cart rows that belong to identities other than u
C30_OthersLines(u) == {c \in cart : c.user # u}

\* C30 helper: the request answered by w names a row of another identity
C30_NamesOthers(w, u) ==
    /\ req'[w].kind \in C30_ItemKinds
    /\ \E c \in C30_OthersLines(u) : c.id = req'[w].item

\* C30: cart update, cart remove and checkout by identity u
\* leave the cart rows of every other identity as they are, and an update or
\* remove that names a row of another identity is answered NotFound.
C30_CartIsolatedNotFound ==
    [][\A w \in Workers, u \in Users :
         C30_Acts(w, u) =>
            /\ C30_OthersLines(u)' = C30_OthersLines(u)
            /\ C30_NamesOthers(w, u) => req'[w].result = "NotFound"]_vars

\* C30, what the handlers do keep: the cart rows of every other identity stay
\* as they are, and an update or remove that names a row of another identity
\* fails, with NotFound or, for an UpdateCartItemView request whose quantity is
\* below 1, with the ValidationError that precedes the lookup.
C30_OthersRowsKept ==
    [][\A w \in Workers, u \in Users :
         C30_Acts(w, u) =>
            /\ C30_OthersLines(u)' = C30_OthersLines(u)
            /\ C30_NamesOthers(w, u) =>
                 \/ req'[w].result = "NotFound"
                 \/ /\ req'[w].result = "ValidationError"
                    /\ req'[w].kind = "item_patch" /\ req'[w].delta < 1]_vars

====
